---- MODULE Spec2Model ----
(***************************************************************************)
(* Model of parse_marina_to_f_map.py: MarinaMapParser.load_marina_csv, the *)
(* three per-row waypoint constructors, and the document generators that   *)
(* parse() runs over the resulting trajectories.                           *)
(*                                                                         *)
(* Text is a sequence of one-character strings.  A Python float is a       *)
(* record [nan, milli]: either NaN or a fixed-point number of thousandths. *)
(* The input alphabet has digits, '.', '+', '-', ',', '#', blank, newline  *)
(* and the letters a, n, x; it has no exponent or underscore notation.     *)
(***************************************************************************)
EXTENDS Integers, Sequences, FiniteSets, TLC

\* ------------------------------------------------------------------ bounds
MaxLines == 2
NumVariants == 2
MaxN == 402

\* ------------------------------------------------------------- characters
Digit == <<"0", "1", "2", "3", "4", "5", "6", "7", "8", "9">>

DigitChars == {Digit[k] : k \in 1..10}

Whitespace == {" ", "\t", "\n"}

DigitVal(ch) == (CHOOSE k \in 1..10 : Digit[k] = ch) - 1

\* str.isdigit() on one character
isdigit(ch) == ch \in DigitChars

\* str.strip()
strip(s) ==
  IF \A k \in 1..Len(s) : s[k] \in Whitespace THEN <<>>
  ELSE LET a == CHOOSE k \in 1..Len(s) :
                  s[k] \notin Whitespace /\ \A j \in 1..(k - 1) : s[j] \in Whitespace
           b == CHOOSE k \in 1..Len(s) :
                  s[k] \notin Whitespace /\ \A j \in (k + 1)..Len(s) : s[j] \in Whitespace
       IN SubSeq(s, a, b)

\* str.startswith(prefix)
startswith(s, prefix) ==
  Len(s) >= Len(prefix) /\ SubSeq(s, 1, Len(prefix)) = prefix

RECURSIVE SplitFrom(_, _)
SplitFrom(s, start) ==
  IF \A k \in start..Len(s) : s[k] # "," THEN << SubSeq(s, start, Len(s)) >>
  ELSE LET k == CHOOSE j \in start..Len(s) :
                  s[j] = "," /\ \A h \in start..(j - 1) : s[h] # ","
       IN << SubSeq(s, start, k - 1) >> \o SplitFrom(s, k + 1)

\* line.split(',')
split(s) == SplitFrom(s, 1)

\* ----------------------------------------------------------------- floats
Num(m) == [nan |-> FALSE, milli |-> m]

NaN == [nan |-> TRUE, milli |-> 0]

\* a product that drops its factor
TimesUnscaled(x, pct) == x

\* x * (pct / 100), the products rl_vx_mps * 0.7 etc.
Times(x, pct) == IF x.nan THEN NaN ELSE Num((x.milli * pct) \div 100)

Minus(x, y) == IF x.nan \/ y.nan THEN NaN ELSE Num(x.milli - y.milli)

RECURSIVE DecVal(_)
DecVal(ds) == IF ds = <<>> THEN 0
              ELSE 10 * DecVal(SubSeq(ds, 1, Len(ds) - 1)) + DigitVal(ds[Len(ds)])

\* thousandths denoted by the digits after the decimal point
FracMilli(ds) ==
  LET d(k) == IF k <= Len(ds) THEN DigitVal(ds[k]) ELSE 0
  IN 100 * d(1) + 10 * d(2) + d(3)

ValueError == [ok |-> FALSE, val |-> NaN]

\* the index of the decimal point of an unsigned numeral, or one past its end
DotIndex(body) ==
  IF \A k \in 1..Len(body) : body[k] # "." THEN Len(body) + 1
  ELSE CHOOSE k \in 1..Len(body) : body[k] = "."

\* digits, at most one decimal point, at least one digit
FloatDecimal(sgn, body, dot) ==
  IF /\ \A k \in 1..Len(body) : k = dot \/ isdigit(body[k])
     /\ Len(body) >= 1
     /\ body # <<".">>
  THEN [ok |-> TRUE,
        val |-> Num(sgn * (1000 * DecVal(SubSeq(body, 1, dot - 1))
                             + FracMilli(SubSeq(body, dot + 1, Len(body)))))]
  ELSE ValueError

FloatUnsigned(sgn, body) ==
  IF body = <<"n", "a", "n">> THEN [ok |-> TRUE, val |-> NaN]
  ELSE FloatDecimal(sgn, body, DotIndex(body))

FloatStripped(t) ==
  IF t = <<>> THEN ValueError
  ELSE IF t[1] = "-" THEN FloatUnsigned(-1, Tail(t))
  ELSE IF t[1] = "+" THEN FloatUnsigned(1, Tail(t))
  ELSE FloatUnsigned(1, t)

\* float(text): ok = FALSE stands for ValueError
float(text) == FloatStripped(strip(text))

\* ---------------------------------------------------------- column schema
\* a schema in which ref_cl_d_left repeats the index of ref_cl_d_right
column_mapping_left_as_right ==
  [ rl_x_m |-> 0, rl_y_m |-> 1, rl_vx_mps |-> 3, rl_psi_rad |-> 5,
    rl_ax_mps2 |-> 6, rl_n_m |-> 4,
    ref_rl_s_m |-> 11, ref_rl_x_m |-> 12, ref_rl_y_m |-> 13,
    ref_rl_psi_rad |-> 15, ref_rl_kappa_radpm |-> 18,
    ref_rl_d_right |-> 21, ref_rl_d_left |-> 22,
    ref_cl_s_m |-> 26, ref_cl_x_m |-> 27, ref_cl_y_m |-> 28,
    ref_cl_psi_rad |-> 30, ref_cl_kappa_radpm |-> 33,
    ref_cl_d_right |-> 36, ref_cl_d_left |-> 36,
    tb_left_x |-> 41, tb_left_y |-> 42, tb_right_x |-> 44, tb_right_y |-> 45 ]

column_mapping ==
  [ rl_x_m |-> 0, rl_y_m |-> 1, rl_vx_mps |-> 3, rl_psi_rad |-> 5,
    rl_ax_mps2 |-> 6, rl_n_m |-> 4,
    ref_rl_s_m |-> 11, ref_rl_x_m |-> 12, ref_rl_y_m |-> 13,
    ref_rl_psi_rad |-> 15, ref_rl_kappa_radpm |-> 18,
    ref_rl_d_right |-> 21, ref_rl_d_left |-> 22,
    ref_cl_s_m |-> 26, ref_cl_x_m |-> 27, ref_cl_y_m |-> 28,
    ref_cl_psi_rad |-> 30, ref_cl_kappa_radpm |-> 33,
    ref_cl_d_right |-> 36, ref_cl_d_left |-> 37,
    tb_left_x |-> 41, tb_left_y |-> 42, tb_right_x |-> 44, tb_right_y |-> 45 ]

\* values[self.column_mapping[name]]: IndexError, ValueError or a float
FieldExc(values, name) ==
  IF column_mapping[name] >= Len(values) THEN "IndexError"
  ELSE IF ~float(values[column_mapping[name] + 1]).ok THEN "ValueError"
  ELSE "none"

Field(values, name) == float(values[column_mapping[name] + 1]).val

FirstOf(excs) ==
  IF \A k \in 1..Len(excs) : excs[k] = "none" THEN "none"
  ELSE excs[CHOOSE j \in 1..Len(excs) :
              excs[j] # "none" /\ \A h \in 1..(j - 1) : excs[h] = "none"]

\* the exception raised by the first failing read of a constructor
FirstExc(values, reads) ==
  FirstOf([k \in 1..Len(reads) |-> FieldExc(values, reads[k])])

NoWaypoint == [id |-> -1]

create_centerline_waypoint(values, waypoint_id) ==
  LET exc == FirstExc(values, <<"ref_cl_x_m", "ref_cl_y_m", "ref_cl_s_m",
                                "ref_cl_psi_rad", "ref_cl_kappa_radpm",
                                "ref_cl_d_right", "ref_cl_d_left",
                                "rl_vx_mps", "rl_ax_mps2">>)
  IN IF exc # "none" THEN [exc |-> exc, wp |-> NoWaypoint]
     ELSE [exc |-> "none", wp |->
       [ id |-> waypoint_id,
         s_m |-> Field(values, "ref_cl_s_m"),
         d_m |-> Num(0),
         x_m |-> Field(values, "ref_cl_x_m"),
         y_m |-> Field(values, "ref_cl_y_m"),
         d_right |-> Field(values, "ref_cl_d_right"),
         d_left |-> Field(values, "ref_cl_d_left"),
         psi_rad |-> Field(values, "ref_cl_psi_rad"),
         kappa_radpm |-> Field(values, "ref_cl_kappa_radpm"),
         vx_mps |-> Times(Field(values, "rl_vx_mps"), 70),
         ax_mps2 |-> Times(Field(values, "rl_ax_mps2"), 50) ]]

\* speed_factor keeps its default 1.0: load_marina_csv never passes it
create_iqp_waypoint(values, waypoint_id) ==
  LET exc == FirstExc(values, <<"rl_x_m", "rl_y_m", "rl_psi_rad", "rl_vx_mps",
                                "rl_ax_mps2", "ref_rl_s_m", "ref_rl_kappa_radpm",
                                "ref_rl_d_right", "ref_rl_d_left">>)
  IN IF exc # "none" THEN [exc |-> exc, wp |-> NoWaypoint]
     ELSE [exc |-> "none", wp |->
       [ id |-> waypoint_id,
         s_m |-> Field(values, "ref_rl_s_m"),
         d_m |-> Num(0),
         x_m |-> Field(values, "rl_x_m"),
         y_m |-> Field(values, "rl_y_m"),
         d_right |-> Field(values, "ref_rl_d_right"),
         d_left |-> Field(values, "ref_rl_d_left"),
         psi_rad |-> Field(values, "rl_psi_rad"),
         kappa_radpm |-> Field(values, "ref_rl_kappa_radpm"),
         vx_mps |-> Times(Field(values, "rl_vx_mps"), 100),
         ax_mps2 |-> Field(values, "rl_ax_mps2") ]]

\* an SP constructor that takes s_m from the reference centerline
create_sp_waypoint_cl_s(values, waypoint_id) ==
  LET exc == FirstExc(values, <<"ref_cl_s_m", "ref_rl_x_m", "ref_rl_y_m",
                                "ref_rl_psi_rad", "ref_rl_kappa_radpm",
                                "ref_rl_d_right", "ref_rl_d_left",
                                "rl_vx_mps", "rl_ax_mps2">>)
  IN IF exc # "none" THEN [exc |-> exc, wp |-> NoWaypoint]
     ELSE [exc |-> "none", wp |->
       [ id |-> waypoint_id,
         s_m |-> Field(values, "ref_cl_s_m"),
         d_m |-> Num(0),
         x_m |-> Field(values, "ref_rl_x_m"),
         y_m |-> Field(values, "ref_rl_y_m"),
         d_right |-> Field(values, "ref_rl_d_right"),
         d_left |-> Field(values, "ref_rl_d_left"),
         psi_rad |-> Field(values, "ref_rl_psi_rad"),
         kappa_radpm |-> Field(values, "ref_rl_kappa_radpm"),
         vx_mps |-> Times(Field(values, "rl_vx_mps"), 85),
         ax_mps2 |-> Times(Field(values, "rl_ax_mps2"), 80) ]]

create_sp_waypoint(values, waypoint_id) ==
  LET exc == FirstExc(values, <<"ref_rl_s_m", "ref_rl_x_m", "ref_rl_y_m",
                                "ref_rl_psi_rad", "ref_rl_kappa_radpm",
                                "ref_rl_d_right", "ref_rl_d_left",
                                "rl_vx_mps", "rl_ax_mps2">>)
  IN IF exc # "none" THEN [exc |-> exc, wp |-> NoWaypoint]
     ELSE [exc |-> "none", wp |->
       [ id |-> waypoint_id,
         s_m |-> Field(values, "ref_rl_s_m"),
         d_m |-> Num(0),
         x_m |-> Field(values, "ref_rl_x_m"),
         y_m |-> Field(values, "ref_rl_y_m"),
         d_right |-> Field(values, "ref_rl_d_right"),
         d_left |-> Field(values, "ref_rl_d_left"),
         psi_rad |-> Field(values, "ref_rl_psi_rad"),
         kappa_radpm |-> Field(values, "ref_rl_kappa_radpm"),
         vx_mps |-> Times(Field(values, "rl_vx_mps"), 85),
         ax_mps2 |-> Times(Field(values, "rl_ax_mps2"), 80) ]]

\* [v.strip() for v in line.split(',')]
RowValues(line) == LET parts == split(line)
                   IN [k \in 1..Len(parts) |-> strip(parts[k])]

\* the filter of the first loop of load_marina_csv, on a stripped line
Skipped(line) ==
  \/ line = <<>>
  \/ startswith(line, <<"#">>)
  \/ startswith(line, <<"n", "a", "n">>)
  \/ ~ \E k \in 1..Len(line) : isdigit(line[k])

\* ------------------------------------------------------------ input files
DigitsOf(n) == IF n < 10 THEN << Digit[n + 1] >>
               ELSE << Digit[(n \div 10) + 1], Digit[(n % 10) + 1] >>

\* the text of column c in data row variant v: the number c + v/10
TokenAt(c, v) == DigitsOf(c) \o <<".">> \o DigitsOf(v)

RECURSIVE Join(_)
Join(tokens) == IF Len(tokens) = 0 THEN <<>>
                ELSE IF Len(tokens) = 1 THEN tokens[1]
                ELSE tokens[1] \o <<",">> \o Join(Tail(tokens))

\* a data row of w numeric columns
NumLine(w, v) == Join([k \in 1..w |-> TokenAt(k - 1, v)]) \o <<"\n">>

\* a full-width data row whose column c holds the text t
BadLine(c, t, v) ==
  Join([k \in 1..(column_mapping.tb_right_y + 1) |->
          IF k - 1 = c THEN t ELSE TokenAt(k - 1, v)]) \o <<"\n">>

SchemaWidth == column_mapping.tb_right_y + 1

\* the lines an input file is made of: full rows, rows with one unparsable or
\* NaN column, rows cut short, blank, comment, and digit-free lines
Catalogue ==
     { NumLine(SchemaWidth, v) : v \in 1..NumVariants }
  \cup { BadLine(0, <<"x">>, 1), BadLine(3, <<"x">>, 1), BadLine(12, <<>>, 1),
         BadLine(27, <<"x">>, 1), BadLine(6, <<"n", "a", "n">>, 1),
         BadLine(0, <<"n", "a", "n">>, 1),
         BadLine(6, <<" ", "-", "2", ".", "5", " ">>, 1) }
  \cup { NumLine(w, 1) : w \in {37, 38, 45} }
  \cup { <<"\n">>, <<" ", "#", " ", "x", "1", "\n">>,
         <<"n", "a", "n", ",", "n", "a", "n", "\n">>,
         <<" ", "x", ",", "-", "\n">> }

RECURSIVE Files(_)
Files(n) == IF n = 0 THEN { <<>> }
            ELSE LET shorter == Files(n - 1)
                 IN shorter \cup { Append(f, l) : f \in {g \in shorter : Len(g) = n - 1},
                                                  l \in Catalogue }

\* ------------------------------------------------------ trigonometry
\* math.sin and math.cos on thousandths of a radian, by the Taylor series up
\* to x^7 after reduction to [-pi/2, pi/2]; sin 0 = 0 and cos 0 = 1 exactly,
\* other angles up to 50 rad within 0.004
SinSmall(x) ==
  LET x2 == (x * x) \div 1000
      t3 == (x * x2) \div 6000
      t5 == (t3 * x2) \div 20000
      t7 == (t5 * x2) \div 42000
  IN x - t3 + t5 - t7

SinMilli(a) ==
  LET r == ((a + 3142) % 6283) - 3142
      f == IF r > 1571 THEN 3142 - r ELSE IF r < -1571 THEN -3142 - r ELSE r
  IN IF f >= 0 THEN SinSmall(f) ELSE -SinSmall(-f)

sin(x) == IF x.nan THEN NaN ELSE Num(SinMilli(x.milli))

\* a cosine without the quarter-turn phase shift
cos_unshifted(x) == IF x.nan THEN NaN ELSE Num(SinMilli(x.milli))

cos(x) == IF x.nan THEN NaN ELSE Num(SinMilli(x.milli + 1571))

Plus(x, y) == IF x.nan \/ y.nan THEN NaN ELSE Num(x.milli + y.milli)

Mul(x, y) ==
  IF x.nan \/ y.nan THEN NaN
  ELSE LET p == x.milli * y.milli
       IN Num(IF p >= 0 THEN p \div 1000 ELSE -((-p) \div 1000))

\* min(...) and max(...) of a non-empty list of floats, as Python folds them:
\* a leading NaN wins every comparison, a later NaN loses every comparison
PyMin(xs) ==
  IF xs[1].nan THEN NaN
  ELSE LET S == {xs[k].milli : k \in {j \in 1..Len(xs) : ~xs[j].nan}}
       IN Num(CHOOSE m \in S : \A y \in S : m <= y)

PyMax(xs) ==
  IF xs[1].nan THEN NaN
  ELSE LET S == {xs[k].milli : k \in {j \in 1..Len(xs) : ~xs[j].nan}}
       IN Num(CHOOSE m \in S : \A y \in S : m >= y)

\* ------------------------------------------------------------- generators
\* waypoints[::sample_rate]
Sampled(waypoints, sample_rate) ==
  [k \in 1..((Len(waypoints) + sample_rate - 1) \div sample_rate) |->
      waypoints[(k - 1) * sample_rate + 1]]

PyMaxInt(a, b) == IF a >= b THEN a ELSE b

create_waypoint_array(waypoints) ==
  [header |-> [seq |-> 1, frame_id |-> ""], wpnts |-> waypoints]

create_waypoint_markers(waypoints, marker_type) ==
  LET sample_rate == PyMaxInt(1, Len(waypoints) \div 500)
      picked == Sampled(waypoints, sample_rate)
  IN [k \in 1..Len(picked) |->
        [ns |-> "", id |-> k - 1, type |-> 2,
         x |-> picked[k].x_m, y |-> picked[k].y_m]]

\* the stride of create_waypoint_markers used for the boundaries
TrackboundsSampleRateDense(waypoints) == PyMaxInt(1, Len(waypoints) \div 500)

TrackboundsSampleRate(waypoints) == PyMaxInt(1, Len(waypoints) \div 200)

\* an offset smaller than the number of markers of one side
RightIdOffsetSmall == 1000 \div 10

RightIdOffset == 1000

create_trackbounds_markers(waypoints) ==
  LET sample_rate == TrackboundsSampleRate(waypoints)
      picked == Sampled(waypoints, sample_rate)
      left == [k \in 1..Len(picked) |->
                 [ns |-> "trackbounds_left", id |-> k - 1, type |-> 1,
                  x |-> Plus(picked[k].x_m,
                             Mul(Mul(picked[k].d_left, Num(-1000)), sin(picked[k].psi_rad))),
                  y |-> Plus(picked[k].y_m,
                             Mul(picked[k].d_left, cos(picked[k].psi_rad)))]]
      right == [k \in 1..Len(picked) |->
                 [ns |-> "trackbounds_right", id |-> (k - 1) + RightIdOffset, type |-> 1,
                  x |-> Plus(picked[k].x_m,
                             Mul(picked[k].d_right, sin(picked[k].psi_rad))),
                  y |-> Plus(picked[k].y_m,
                             Mul(Mul(picked[k].d_right, Num(-1000)), cos(picked[k].psi_rad)))]]
  IN left \o right

\* lap_time = 108.68526373056437, in thousandths
lap_time == Num(108685)

create_global_waypoints_json(cl, iqp, sp) ==
  LET iqp_max_speed == PyMax([k \in 1..Len(iqp) |-> iqp[k].vx_mps])
      sp_max_speed == PyMax([k \in 1..Len(sp) |-> sp[k].vx_mps])
      iqp_lap_time == lap_time
      sp_lap_time == Times(lap_time, 108)
  IN [ map_info_str |-> [iqp_lap_time |-> iqp_lap_time, iqp_max_speed |-> iqp_max_speed,
                         sp_lap_time |-> sp_lap_time, sp_max_speed |-> sp_max_speed],
       est_lap_time |-> sp_lap_time,
       centerline_markers |-> create_waypoint_markers(cl, "centerline"),
       centerline_waypoints |-> create_waypoint_array(cl),
       global_traj_markers_iqp |-> create_waypoint_markers(iqp, "iqp"),
       global_traj_wpnts_iqp |-> create_waypoint_array(iqp),
       global_traj_markers_sp |-> create_waypoint_markers(sp, "sp"),
       global_traj_wpnts_sp |-> create_waypoint_array(sp),
       trackbounds_markers |-> create_trackbounds_markers(iqp) ]

\* an origin taken from the first waypoint instead of the minima
create_map_yaml_first_waypoint(waypoints) ==
  LET padding == Num(5000)
  IN [ origin |-> << Minus(waypoints[1].x_m, padding),
                     Minus(waypoints[1].y_m, padding), 0 >> ]

create_map_yaml(waypoints) ==
  LET min_x == PyMin([k \in 1..Len(waypoints) |-> waypoints[k].x_m])
      min_y == PyMin([k \in 1..Len(waypoints) |-> waypoints[k].y_m])
      padding == Num(5000)
  IN [ origin |-> << Minus(min_x, padding), Minus(min_y, padding), 0 >> ]

\* sectors that both contain the midpoint index
create_ot_sectors_yaml_shared_midpoint(waypoints) ==
  LET total_waypoints == Len(waypoints)
  IN [ n_sectors |-> 2,
       Overtaking_sector0 |->
         [start |-> 0, end |-> total_waypoints \div 2, ot_flag |-> FALSE],
       Overtaking_sector1 |->
         [start |-> total_waypoints \div 2, end |-> total_waypoints - 1,
          ot_flag |-> FALSE] ]

create_ot_sectors_yaml(waypoints) ==
  LET total_waypoints == Len(waypoints)
  IN [ n_sectors |-> 2,
       Overtaking_sector0 |->
         [start |-> 0, end |-> total_waypoints \div 2, ot_flag |-> FALSE],
       Overtaking_sector1 |->
         [start |-> (total_waypoints \div 2) + 1, end |-> total_waypoints - 1,
          ot_flag |-> FALSE] ]

create_speed_scaling_yaml(waypoints) ==
  LET total_waypoints == Len(waypoints)
  IN [ n_sectors |-> 1,
       Sector0 |-> [start |-> 0, end |-> total_waypoints - 1] ]

NoDoc == [absent |-> TRUE]

NoDocs == [ global_waypoints |-> NoDoc, map_yaml |-> NoDoc,
            ot_sectors |-> NoDoc, speed_scaling |-> NoDoc ]

\* ------------------------------------------------------------------ state
VARIABLES pc, file, fpos, data_lines, i,
          centerline_waypoints, iqp_waypoints, sp_waypoints,
          src, warnings,
          out_dir, docs, written, image, exit_code

loadvars == << file, fpos, data_lines, i, centerline_waypoints, iqp_waypoints,
               sp_waypoints, src, warnings >>

outvars == << out_dir, docs, written, image, exit_code >>

vars == << pc, file, fpos, data_lines, i,
           centerline_waypoints, iqp_waypoints, sp_waypoints, src, warnings,
           out_dir, docs, written, image, exit_code >>

NoOutput ==
  /\ out_dir = FALSE
  /\ docs = NoDocs
  /\ written = <<>>
  /\ image = "none"
  /\ exit_code = -1

Init ==
  /\ pc = "main"
  /\ file \in Files(MaxLines)
  /\ fpos = 1
  /\ data_lines = <<>>
  /\ i = 0
  /\ centerline_waypoints = <<>>
  /\ iqp_waypoints = <<>>
  /\ sp_waypoints = <<>>
  /\ src = [centerline |-> <<>>, iqp |-> <<>>, sp |-> <<>>]
  /\ warnings = <<>>
  /\ NoOutput

\* main(): os.path.exists(args.csv_file), then converter.parse()
MainStart ==
  /\ pc = "main"
  /\ \E exists \in BOOLEAN :
       IF exists THEN pc' = "read" /\ exit_code' = exit_code
       ELSE pc' = "exit" /\ exit_code' = 1
  /\ UNCHANGED << loadvars, out_dir, docs, written, image >>

\* one iteration of `for line_num, line in enumerate(f)`
ReadLine ==
  /\ pc = "read"
  /\ fpos <= Len(file)
  /\ LET line == strip(file[fpos])
     IN data_lines' = IF Skipped(line) THEN data_lines ELSE Append(data_lines, line)
  /\ fpos' = fpos + 1
  /\ UNCHANGED << pc, file, i, centerline_waypoints, iqp_waypoints, sp_waypoints,
                  src, warnings, outvars >>

EndOfFile ==
  /\ pc = "read"
  /\ fpos > Len(file)
  /\ pc' = "rows"
  /\ UNCHANGED << loadvars, outvars >>

\* the appends of the try block and the warning of the except clause, for the
\* outcomes of the three constructors: an append happens only if every
\* constructor called before it returned
TryAppends(cl, iqp, sp) ==
  LET okcl == cl.exc = "none"
      okiqp == cl.exc = "none" /\ iqp.exc = "none"
      oksp == cl.exc = "none" /\ iqp.exc = "none" /\ sp.exc = "none"
  IN /\ centerline_waypoints' =
          IF okcl THEN Append(centerline_waypoints, cl.wp) ELSE centerline_waypoints
     /\ iqp_waypoints' =
          IF okiqp THEN Append(iqp_waypoints, iqp.wp) ELSE iqp_waypoints
     /\ sp_waypoints' =
          IF oksp THEN Append(sp_waypoints, sp.wp) ELSE sp_waypoints
     /\ src' = [ centerline |-> IF okcl THEN Append(src.centerline, i)
                                ELSE src.centerline,
                 iqp |-> IF okiqp THEN Append(src.iqp, i) ELSE src.iqp,
                 sp |-> IF oksp THEN Append(src.sp, i) ELSE src.sp ]
     /\ warnings' =
          IF oksp THEN warnings
          ELSE Append(warnings,
                      [line |-> i,
                       exc |-> FirstOf(<< cl.exc, iqp.exc, sp.exc >>)])

\* the three constructors on the fields of one row
TryRow(values, cl_id, iqp_id, sp_id) ==
  TryAppends(create_centerline_waypoint(values, cl_id),
             create_iqp_waypoint(values, iqp_id),
             create_sp_waypoint(values, sp_id))

\* the body of `for i, line in enumerate(data_lines)`, try and except, with
\* the ids handed to the three constructors
RowStep(cl_id, iqp_id, sp_id) ==
  /\ pc = "rows"
  /\ i < Len(data_lines)
  /\ TryRow(RowValues(data_lines[i + 1]), cl_id, iqp_id, sp_id)
  /\ i' = i + 1
  /\ UNCHANGED << pc, file, fpos, data_lines, outvars >>

\* a loop that numbers waypoints by the source row index i
ParseRowByRowIndex == RowStep(i, i, i)

\* one iteration of the row loop: each id is the length of its own list
ParseRow ==
  RowStep(Len(centerline_waypoints), Len(iqp_waypoints), Len(sp_waypoints))

\* load_marina_csv returns the three lists
ReturnTrajectories ==
  /\ pc = "rows"
  /\ i >= Len(data_lines)
  /\ pc' = "loaded"
  /\ UNCHANGED << loadvars, outvars >>

\* parse(): `if not trajectory_data or not trajectory_data['centerline']`
CheckTrajectories ==
  /\ pc = "loaded"
  /\ IF centerline_waypoints = <<>>
     THEN pc' = "exit" /\ exit_code' = 1
     ELSE pc' = "mkdir" /\ exit_code' = exit_code
  /\ UNCHANGED << loadvars, out_dir, docs, written, image >>

CreateOutputDirectory ==
  /\ pc = "mkdir"
  /\ out_dir' = TRUE
  /\ pc' = "json"
  /\ UNCHANGED << loadvars, docs, written, image, exit_code >>

\* a first step that creates global_waypoints.json before the summary is
\* computed, so that the failure of max() leaves the file behind
WriteGlobalWaypointsOpenFirst ==
  /\ pc = "json"
  /\ written' = Append(written, "global_waypoints.json")
  /\ IF iqp_waypoints = <<>> \/ sp_waypoints = <<>>
     THEN /\ pc' = "exit"
          /\ exit_code' = 1
          /\ docs' = docs
     ELSE /\ docs' = [docs EXCEPT !.global_waypoints =
                        create_global_waypoints_json(centerline_waypoints,
                                                     iqp_waypoints, sp_waypoints)]
          /\ pc' = "map_yaml"
          /\ exit_code' = exit_code
  /\ UNCHANGED << loadvars, out_dir, image >>

\* 1. global_waypoints.json; max() of an empty list raises ValueError, which
\* main() catches with `except Exception` and turns into exit code 1
WriteGlobalWaypoints ==
  /\ pc = "json"
  /\ IF iqp_waypoints = <<>> \/ sp_waypoints = <<>>
     THEN /\ pc' = "exit"
          /\ exit_code' = 1
          /\ UNCHANGED << docs, written >>
     ELSE /\ docs' = [docs EXCEPT !.global_waypoints =
                        create_global_waypoints_json(centerline_waypoints,
                                                     iqp_waypoints, sp_waypoints)]
          /\ written' = Append(written, "global_waypoints.json")
          /\ pc' = "map_yaml"
          /\ exit_code' = exit_code
  /\ UNCHANGED << loadvars, out_dir, image >>

\* 2. <map>.yaml
WriteMapYaml ==
  /\ pc = "map_yaml"
  /\ docs' = [docs EXCEPT !.map_yaml = create_map_yaml(centerline_waypoints)]
  /\ written' = Append(written, "map.yaml")
  /\ pc' = "ot"
  /\ UNCHANGED << loadvars, out_dir, image, exit_code >>

\* 3. ot_sectors.yaml
WriteOtSectors ==
  /\ pc = "ot"
  /\ docs' = [docs EXCEPT !.ot_sectors = create_ot_sectors_yaml(centerline_waypoints)]
  /\ written' = Append(written, "ot_sectors.yaml")
  /\ pc' = "speed"
  /\ UNCHANGED << loadvars, out_dir, image, exit_code >>

\* 4. speed_scaling.yaml
WriteSpeedScaling ==
  /\ pc = "speed"
  /\ docs' = [docs EXCEPT !.speed_scaling =
                create_speed_scaling_yaml(centerline_waypoints)]
  /\ written' = Append(written, "speed_scaling.yaml")
  /\ pc' = "image"
  /\ UNCHANGED << loadvars, out_dir, image, exit_code >>

\* a copy step for which a missing source image is an error
CopyPlaceholderImageStrict ==
  /\ pc = "image"
  /\ \E exists \in BOOLEAN :
       /\ image' = IF exists THEN "copied" ELSE "warned"
       /\ exit_code' = IF exists THEN 0 ELSE 1
  /\ pc' = "exit"
  /\ UNCHANGED << loadvars, out_dir, docs, written >>

\* 5. copy_placeholder_image, then parse() returns True and main() returns 0
CopyPlaceholderImage ==
  /\ pc = "image"
  /\ \E exists \in BOOLEAN : image' = IF exists THEN "copied" ELSE "warned"
  /\ pc' = "exit"
  /\ exit_code' = 0
  /\ UNCHANGED << loadvars, out_dir, docs, written >>

Next ==
  \/ MainStart
  \/ ReadLine
  \/ EndOfFile
  \/ ParseRow
  \/ ReturnTrajectories
  \/ CheckTrajectories
  \/ CreateOutputDirectory
  \/ WriteGlobalWaypoints
  \/ WriteMapYaml
  \/ WriteOtSectors
  \/ WriteSpeedScaling
  \/ CopyPlaceholderImage

Spec == Init /\ [][Next]_vars

\* ------------------------------------------- trajectories of a given length
\* the values of the full-width data row of variant v
ValidValues == [v \in 1..NumVariants |-> RowValues(strip(NumLine(SchemaWidth, v)))]

RowTemplate ==
  [v \in 1..NumVariants |->
     [ centerline |-> create_centerline_waypoint(ValidValues[v], 0).wp,
       iqp |-> create_iqp_waypoint(ValidValues[v], 0).wp,
       sp |-> create_sp_waypoint(ValidValues[v], 0).wp ]]

\* the list load_marina_csv builds from n full-width rows that cycle through
\* the row variants
Trajectory(kind, n) ==
  [k \in 1..n |-> [RowTemplate[((k - 1) % NumVariants) + 1][kind] EXCEPT !.id = k - 1]]

\* the texts of the headings 0, pi/2, pi, 3 pi/2 and -pi/2 to three decimals
Headings ==
  { <<"0">>, <<"1", ".", "5", "7", "1">>, <<"3", ".", "1", "4", "2">>,
    <<"4", ".", "7", "1", "2">>, <<"-", "1", ".", "5", "7", "1">> }

\* the texts of the track half-widths 2.0 and 3.0
Widths == { <<"2", ".", "0">>, <<"3", ".", "0">> }

\* a full-width data row with the heading h in the raw racing-line column and
\* the half-widths dl, dr in the reference racing-line columns
HeadingLine(h, dl, dr) ==
  Join([k \in 1..SchemaWidth |->
          IF k - 1 = column_mapping.rl_psi_rad THEN h
          ELSE IF k - 1 = column_mapping.ref_rl_d_left THEN dl
          ELSE IF k - 1 = column_mapping.ref_rl_d_right THEN dr
          ELSE TokenAt(k - 1, 1)]) \o <<"\n">>

\* the three waypoints load_marina_csv builds from one such row
HeadingRow(h, dl, dr) ==
  LET values == RowValues(strip(HeadingLine(h, dl, dr)))
  IN [ centerline |-> create_centerline_waypoint(values, 0).wp,
       iqp |-> create_iqp_waypoint(values, 0).wp,
       sp |-> create_sp_waypoint(values, 0).wp ]

\* the state in which load_marina_csv has returned n waypoints per trajectory,
\* or one waypoint per trajectory from a row with a quarter-turn heading
InitGen ==
  /\ pc = "loaded"
  /\ file = <<>>
  /\ fpos = 1
  /\ data_lines = <<>>
  /\ \/ \E n \in 0..MaxN :
          /\ i = n
          /\ centerline_waypoints = Trajectory("centerline", n)
          /\ iqp_waypoints = Trajectory("iqp", n)
          /\ sp_waypoints = Trajectory("sp", n)
     \/ \E h \in Headings, dl \in Widths, dr \in Widths :
          /\ i = 1
          /\ centerline_waypoints = << HeadingRow(h, dl, dr).centerline >>
          /\ iqp_waypoints = << HeadingRow(h, dl, dr).iqp >>
          /\ sp_waypoints = << HeadingRow(h, dl, dr).sp >>
  /\ src = [centerline |-> <<>>, iqp |-> <<>>, sp |-> <<>>]
  /\ warnings = <<>>
  /\ NoOutput

NextGen ==
  \/ CheckTrajectories
  \/ CreateOutputDirectory
  \/ WriteGlobalWaypoints
  \/ WriteMapYaml
  \/ WriteOtSectors
  \/ WriteSpeedScaling
  \/ CopyPlaceholderImage

SpecGen == InitGen /\ [][NextGen]_vars

\* parse() is sequential and never waits: once load_marina_csv has returned,
\* the next step of parse() is taken
SpecFair == Spec /\ WF_vars(NextGen)

\* ------------------------------------------------------------- properties
Lists == [ centerline |-> centerline_waypoints, iqp |-> iqp_waypoints,
           sp |-> sp_waypoints ]

Kinds == {"centerline", "iqp", "sp"}

\* the fields of the data row that produced waypoint k of a list
RowOf(kind, k) == RowValues(data_lines[src[kind][k] + 1])

\* the columns read by at least one of the three constructors
ReadCols == {0, 1, 3, 5, 6, 11, 12, 13, 15, 18, 21, 22, 26, 27, 28, 30, 33, 36, 37}

\* a row with a field that float() rejects in a column some constructor reads
NonNumericRow(values) ==
  \E c \in ReadCols : c < Len(values) /\ ~float(values[c + 1]).ok

\* C1: after every row of the pass, and when load_marina_csv returns, the
\* centerline, IQP and SP lists have the same length.
C1_EqualLengths ==
  /\ Len(centerline_waypoints) = Len(iqp_waypoints)
  /\ Len(iqp_waypoints) = Len(sp_waypoints)

\* C2: a row with a non-numeric field in any column read by any constructor
\* leaves all three lists unchanged, and the loop moves on to the next row.
C2_BadRowAddsNothing ==
  [][ (pc = "rows" /\ i < Len(data_lines)
         /\ NonNumericRow(RowValues(data_lines[i + 1])))
      => /\ centerline_waypoints' = centerline_waypoints
         /\ iqp_waypoints' = iqp_waypoints
         /\ sp_waypoints' = sp_waypoints
         /\ i' = i + 1
         /\ pc' = "rows" ]_vars

\* C3: in each of the three lists the waypoint at position k (0-based) has
\* id k, so the ids of a list of length N are exactly 0..N-1.
C3_DenseIds ==
  \A kind \in Kinds :
    \A k \in 1..Len(Lists[kind]) : Lists[kind][k].id = k - 1

\* a waypoint whose id differs from the index of the row it came from: some
\* row before it was skipped
C3_Witness ==
  /\ pc = "loaded"
  /\ \E kind \in Kinds :
       \E k \in 1..Len(Lists[kind]) :
          /\ src[kind][k] # Lists[kind][k].id
          /\ Lists[kind][k].id = k - 1

\* the reference parameterizations of the CSV schema and the columns that hold
\* their arc length, position and heading: raw racing line (x_rl_m, y_rl_m,
\* chi_rl_rad; it has no arc-length column), reference racing line
\* (s_ref_rl_m, x_ref_rl_m, y_ref_rl_m, theta_ref_rl_rad), reference
\* centerline (s_ref_cl_m, x_ref_cl_m, y_ref_cl_m, theta_ref_cl_rad)
FrameCols ==
  [ rl |-> [x_m |-> 0, y_m |-> 1, psi_rad |-> 5],
    ref_rl |-> [s_m |-> 11, x_m |-> 12, y_m |-> 13, psi_rad |-> 15],
    ref_cl |-> [s_m |-> 26, x_m |-> 27, y_m |-> 28, psi_rad |-> 30] ]

Frames == {"rl", "ref_rl", "ref_cl"}

\* field f of waypoint w is the value of the column that holds f in frame F
TakenFrom(w, f, values, F) ==
  /\ f \in DOMAIN FrameCols[F]
  /\ FrameCols[F][f] < Len(values)
  /\ float(values[FrameCols[F][f] + 1]) = [ok |-> TRUE, val |-> w[f]]

OneFrame(w, values) ==
  \E F \in Frames :
     \A f \in {"s_m", "x_m", "y_m", "psi_rad"} : TakenFrom(w, f, values, F)

CenterlineFrames(w, values) ==
  \A f \in {"s_m", "x_m", "y_m", "psi_rad"} : TakenFrom(w, f, values, "ref_cl")

SpFrames(w, values) ==
  \A f \in {"s_m", "x_m", "y_m", "psi_rad"} : TakenFrom(w, f, values, "ref_rl")

IqpFrames(w, values) ==
  /\ \A f \in {"x_m", "y_m", "psi_rad"} : TakenFrom(w, f, values, "rl")
  /\ TakenFrom(w, "s_m", values, "ref_rl")

\* C4 as stated: every produced waypoint of every variant takes s_m from the
\* same reference parameterization as its x_m, y_m and psi_rad.
C4_SingleFrame ==
  pc = "loaded" =>
    \A kind \in Kinds :
      \A k \in 1..Len(Lists[kind]) : OneFrame(Lists[kind][k], RowOf(kind, k))

\* C4 amended: centerline waypoints take s_m, x_m, y_m, psi_rad from the
\* reference centerline and SP waypoints take them from the reference racing
\* line; IQP waypoints take x_m, y_m, psi_rad from the raw racing line and s_m
\* from the reference racing line.
C4_FramesPerVariant ==
  pc = "loaded" =>
    /\ \A k \in 1..Len(centerline_waypoints) :
         CenterlineFrames(centerline_waypoints[k], RowOf("centerline", k))
    /\ \A k \in 1..Len(sp_waypoints) :
         SpFrames(sp_waypoints[k], RowOf("sp", k))
    /\ \A k \in 1..Len(iqp_waypoints) :
         IqpFrames(iqp_waypoints[k], RowOf("iqp", k))

\* a row accepted by all three constructors
C4_Witness ==
  /\ pc = "loaded"
  /\ Len(centerline_waypoints) >= 1
  /\ Len(iqp_waypoints) >= 1
  /\ Len(sp_waypoints) >= 1
  /\ iqp_waypoints[1].s_m = sp_waypoints[1].s_m
  /\ iqp_waypoints[1].x_m # sp_waypoints[1].x_m

\* w = raw * pct / 100 up to the last fixed-point digit
ScaledBy(w, raw, pct) ==
  IF raw.nan THEN w.nan
  ELSE ~w.nan /\ (pct * raw.milli) - (100 * w.milli) \in 0..99

\* w carries the raw speed (column 3) and acceleration (column 6) of the row,
\* scaled by vpct and apct hundredths
ScaledRow(w, values, vpct, apct) ==
  /\ ScaledBy(w.vx_mps, float(values[4]).val, vpct)
  /\ ScaledBy(w.ax_mps2, float(values[7]).val, apct)

UnscaledRow(w, values) ==
  /\ w.vx_mps = float(values[4]).val
  /\ w.ax_mps2 = float(values[7]).val

\* C5: every waypoint carries the raw racing-line speed (column 3) and
\* acceleration (column 6) of its row scaled by its variant's factors:
\* centerline 0.70 and 0.50, SP 0.85 and 0.80, IQP 1.00 and 1.00.
C5_Scaling ==
  pc = "loaded" =>
    /\ \A k \in 1..Len(centerline_waypoints) :
         ScaledRow(centerline_waypoints[k], RowOf("centerline", k), 70, 50)
    /\ \A k \in 1..Len(sp_waypoints) :
         ScaledRow(sp_waypoints[k], RowOf("sp", k), 85, 80)
    /\ \A k \in 1..Len(iqp_waypoints) :
         UnscaledRow(iqp_waypoints[k], RowOf("iqp", k))

\* the row 0.1, 1.1, 2.1, 3.1, ... accepted by all three constructors
C5_Witness ==
  /\ pc = "loaded"
  /\ Len(centerline_waypoints) >= 1
  /\ Len(iqp_waypoints) >= 1
  /\ Len(sp_waypoints) >= 1
  /\ iqp_waypoints[1].vx_mps = Num(3100)
  /\ centerline_waypoints[1].vx_mps = Num(2170)
  /\ sp_waypoints[1].vx_mps = Num(2635)
  /\ sp_waypoints[1].ax_mps2 = Num(4880)

\* the skip rule of the claim, on a stripped line
ClaimSkipped(line) ==
  \/ line = <<>>
  \/ line[1] = "#"
  \/ \A k \in 1..Len(line) : line[k] \notin DigitChars

KeptByClaim(line) == ~ClaimSkipped(line)

\* C6: once the file is read, data_lines holds, in file order, exactly the
\* stripped lines that are not empty, do not begin with '#' and contain a
\* digit.
C6_FilterExact ==
  pc \in {"rows", "loaded"} =>
    data_lines = SelectSeq([k \in 1..Len(file) |-> strip(file[k])], KeptByClaim)

\* C7 as stated: a row of fewer than 46 fields adds no waypoint to any list,
\* is reported with a warning, and the loop continues.
C7_ShortRowSkipped ==
  [][ (pc = "rows" /\ i < Len(data_lines)
         /\ Len(RowValues(data_lines[i + 1])) < 46)
      => /\ centerline_waypoints' = centerline_waypoints
         /\ iqp_waypoints' = iqp_waypoints
         /\ sp_waypoints' = sp_waypoints
         /\ Len(warnings') = Len(warnings) + 1
         /\ i' = i + 1
         /\ pc' = "rows" ]_vars

\* C7 amended: a row of fewer than 38 fields (too short to hold column 37,
\* the highest column read) adds no waypoint to any list, is reported with a
\* warning, and the loop continues.
C7_TooShortRowSkipped ==
  [][ (pc = "rows" /\ i < Len(data_lines)
         /\ Len(RowValues(data_lines[i + 1])) < 38)
      => /\ centerline_waypoints' = centerline_waypoints
         /\ iqp_waypoints' = iqp_waypoints
         /\ sp_waypoints' = sp_waypoints
         /\ Len(warnings') = Len(warnings) + 1
         /\ i' = i + 1
         /\ pc' = "rows" ]_vars

\* a 37-field row has been rejected with IndexError
C7_Witness ==
  \E k \in 1..Len(warnings) :
     /\ warnings[k].exc = "IndexError"
     /\ Len(RowValues(data_lines[warnings[k].line + 1])) = 37
     /\ i > warnings[k].line

Range(sector) == sector.start .. sector.end

OtWritten == docs.ot_sectors # NoDoc

\* C8: for every centerline length N >= 1 the two sector ranges are
\* non-overlapping, contiguous (sector1.start = sector0.end + 1), and their
\* union contains every waypoint index 0..N-1.
C8_SectorsPartition ==
  OtWritten =>
    LET N == Len(centerline_waypoints)
        s0 == docs.ot_sectors.Overtaking_sector0
        s1 == docs.ot_sectors.Overtaking_sector1
    IN /\ N >= 1
       /\ s0.start = 0
       /\ s0.end = N \div 2
       /\ s1.start = (N \div 2) + 1
       /\ s1.end = N - 1
       /\ Range(s0) \cap Range(s1) = {}
       /\ s1.start = s0.end + 1
       /\ (0 .. (N - 1)) \subseteq (Range(s0) \cup Range(s1))

\* both sectors hold indices: the sectors of a 301-waypoint centerline
C8_Witness ==
  /\ OtWritten
  /\ Len(centerline_waypoints) = 301
  /\ docs.ot_sectors.Overtaking_sector0.end = 150
  /\ docs.ot_sectors.Overtaking_sector1.start = 151
  /\ docs.ot_sectors.Overtaking_sector1.end = 300

\* C9 as stated: the two sectors contain the same number of indices and both
\* have ot_flag = false.
C9_EqualHalves ==
  OtWritten =>
    /\ Cardinality(Range(docs.ot_sectors.Overtaking_sector0))
         = Cardinality(Range(docs.ot_sectors.Overtaking_sector1))
    /\ docs.ot_sectors.Overtaking_sector0.ot_flag = FALSE
    /\ docs.ot_sectors.Overtaking_sector1.ot_flag = FALSE

\* C9 amended: sector0 contains N div 2 + 1 indices and sector1 the other
\* N - (N div 2 + 1), so sector0 is larger by 1 for odd N and by 2 for even
\* N; both have ot_flag = false.
C9_UnequalHalves ==
  OtWritten =>
    LET N == Len(centerline_waypoints)
        n0 == Cardinality(Range(docs.ot_sectors.Overtaking_sector0))
        n1 == Cardinality(Range(docs.ot_sectors.Overtaking_sector1))
    IN /\ n0 = (N \div 2) + 1
       /\ n1 = N - n0
       /\ n0 - n1 = IF N % 2 = 1 THEN 1 ELSE 2
       /\ docs.ot_sectors.Overtaking_sector0.ot_flag = FALSE
       /\ docs.ot_sectors.Overtaking_sector1.ot_flag = FALSE

\* the sectors of a 300-waypoint centerline: 151 and 149 indices
C9_Witness ==
  /\ OtWritten
  /\ Len(centerline_waypoints) = 300
  /\ Cardinality(Range(docs.ot_sectors.Overtaking_sector0)) = 151
  /\ Cardinality(Range(docs.ot_sectors.Overtaking_sector1)) = 149

JsonWritten == docs.global_waypoints # NoDoc

MarkerIds(side) ==
  LET ms == docs.global_waypoints.trackbounds_markers
  IN {ms[k].id : k \in {j \in 1..Len(ms) : ms[j].ns = side}}

\* C10: for every IQP length N >= 1 the left marker ids are 0..k-1 and the
\* right marker ids 1000..1000+k-1 with k = ceil(N / max(1, N div 200)) below
\* 1000, so no id occurs on both sides.
C10_MarkerIdsDisjoint ==
  JsonWritten =>
    LET N == Len(iqp_waypoints)
        stride == IF N \div 200 >= 1 THEN N \div 200 ELSE 1
        k == (N + stride - 1) \div stride
    IN /\ N >= 1
       /\ MarkerIds("trackbounds_left") = 0 .. (k - 1)
       /\ MarkerIds("trackbounds_right") = 1000 .. (1000 + k - 1)
       /\ Len(docs.global_waypoints.trackbounds_markers) = 2 * k
       /\ k < 1000
       /\ MarkerIds("trackbounds_left") \cap MarkerIds("trackbounds_right") = {}

\* the largest marker set: 399 waypoints at stride 1
C10_Witness ==
  /\ JsonWritten
  /\ Len(iqp_waypoints) = 399
  /\ 398 \in MarkerIds("trackbounds_left")
  /\ 1398 \in MarkerIds("trackbounds_right")

\* the number of boundary markers of one side
SideCount(side) ==
  LET ms == docs.global_waypoints.trackbounds_markers
  IN Cardinality({k \in 1..Len(ms) : ms[k].ns = side})

\* C11: for every IQP length N >= 1 each side has fewer than 400 boundary
\* markers, the block has fewer than 800 markers, and the left and right
\* sides have the same number of markers.
C11_MarkerCountCapped ==
  JsonWritten =>
    /\ Len(iqp_waypoints) >= 1
    /\ SideCount("trackbounds_left") < 400
    /\ SideCount("trackbounds_right") < 400
    /\ Len(docs.global_waypoints.trackbounds_markers) < 800
    /\ SideCount("trackbounds_left") = SideCount("trackbounds_right")
    /\ SideCount("trackbounds_left") + SideCount("trackbounds_right")
         = Len(docs.global_waypoints.trackbounds_markers)

\* the stride takes effect: 400 waypoints give 200 markers per side, one
\* waypoint fewer gives 399
C11_Witness ==
  /\ JsonWritten
  /\ Len(iqp_waypoints) = 400
  /\ SideCount("trackbounds_left") = 200
  /\ SideCount("trackbounds_right") = 200

\* load_marina_csv has returned and every data row was skipped with a warning
NoValidRow ==
  /\ pc \notin {"main", "read", "rows"}
  /\ Len(warnings) = Len(data_lines)

\* C12: if parsing yields no valid row, the run ends with a non-zero exit code
\* straight after the trajectory check, and neither the output directory nor
\* any output document is created.
C12_NoValidRowFatal ==
  NoValidRow =>
    /\ pc \in {"loaded", "exit"}
    /\ pc = "exit" => exit_code = 1
    /\ out_dir = FALSE
    /\ docs = NoDocs
    /\ written = <<>>

FourDocuments ==
  << "global_waypoints.json", "map.yaml", "ot_sectors.yaml", "speed_scaling.yaml" >>

AllDocsWritten ==
  /\ written = FourDocuments
  /\ docs.global_waypoints # NoDoc
  /\ docs.map_yaml # NoDoc
  /\ docs.ot_sectors # NoDoc
  /\ docs.speed_scaling # NoDoc

\* C13: when copy_placeholder_image runs, the four documents have been written
\* in order; when the source image is missing it only warns, and the run ends
\* with parse() returning True and exit code 0.
C13_MissingImageNonFatal ==
  /\ pc = "image" => AllDocsWritten
  /\ image = "warned" => (AllDocsWritten /\ pc = "exit" /\ exit_code = 0)

\* a run that ended after the warning about the missing source image
C13_Witness ==
  /\ image = "warned"
  /\ pc = "exit"
  /\ exit_code = 0
  /\ Len(written) = 4

MapWritten == docs.map_yaml # NoDoc

\* m is the least of the numbers that field f takes over a list of waypoints
LeastOf(m, waypoints, f) ==
  /\ \E k \in 1..Len(waypoints) : waypoints[k][f] = Num(m)
  /\ \A k \in 1..Len(waypoints) : ~waypoints[k][f].nan /\ m <= waypoints[k][f].milli

\* C14: the origin of the map document is [min(x_m) - 5.0, min(y_m) - 5.0, 0]
\* with both minima taken over the centerline waypoints.
C14_MapOrigin ==
  MapWritten =>
    /\ Len(centerline_waypoints) >= 1
    /\ Len(docs.map_yaml.origin) = 3
    /\ ~docs.map_yaml.origin[1].nan
    /\ ~docs.map_yaml.origin[2].nan
    /\ LeastOf(docs.map_yaml.origin[1].milli + 5000, centerline_waypoints, "x_m")
    /\ LeastOf(docs.map_yaml.origin[2].milli + 5000, centerline_waypoints, "y_m")
    /\ docs.map_yaml.origin[3] = 0

\* the minima are not at the first waypoint, and differ from those of the IQP
\* and SP lists: rows 27.2, 28.2 then 27.1, 28.1 give the origin (22.1, 23.1)
C14_Witness ==
  /\ MapWritten
  /\ Len(centerline_waypoints) = 2
  /\ centerline_waypoints[1].x_m = Num(27200)
  /\ centerline_waypoints[2].x_m = Num(27100)
  /\ iqp_waypoints[1].x_m = Num(200)
  /\ sp_waypoints[1].x_m = Num(12200)
  /\ docs.map_yaml.origin = << Num(22100), Num(23100), 0 >>

\* s_m never decreases from a waypoint to the next one of the list
NonDecreasingS(waypoints) ==
  \A k \in 1..(Len(waypoints) - 1) :
     /\ ~waypoints[k].s_m.nan
     /\ ~waypoints[k + 1].s_m.nan
     /\ waypoints[k + 1].s_m.milli >= waypoints[k].s_m.milli

\* C15: in each of the three lists returned by load_marina_csv, s_m is
\* monotonically non-decreasing along the list.
C15_MonotoneS ==
  pc = "loaded" => \A kind \in Kinds : NonDecreasingS(Lists[kind])

\* the headings that are multiples of pi/2, in thousandths of a radian, with
\* their exact sine and cosine
QuarterTurns ==
  { [psi |-> 0, sin |-> 0, cos |-> 1], [psi |-> 1571, sin |-> 1, cos |-> 0],
    [psi |-> 3142, sin |-> 0, cos |-> -1], [psi |-> 4712, sin |-> -1, cos |-> 0],
    [psi |-> -1571, sin |-> -1, cos |-> 0] }

\* two coordinates that agree to the centimetre
Near(a, b) == ~a.nan /\ (a.milli - b) \in -10..10

\* marker m is the point (x, y) to the centimetre
MarkerNear(m, x, y) == Near(m.x, x) /\ Near(m.y, y)

\* the left and right markers of a waypoint whose heading is the quarter turn q
QuarterTurnMarkers(left, right, w, q) ==
  /\ MarkerNear(left, w.x_m.milli - (w.d_left.milli * q.sin),
                      w.y_m.milli + (w.d_left.milli * q.cos))
  /\ MarkerNear(right, w.x_m.milli + (w.d_right.milli * q.sin),
                       w.y_m.milli - (w.d_right.milli * q.cos))

\* the left and right markers of a waypoint with psi_rad = 0 and both
\* half-widths 2.0
ZeroHeadingMarkers(left, right, w) ==
  /\ left.x = w.x_m
  /\ left.y = Num(w.y_m.milli + 2000)
  /\ right.x = w.x_m
  /\ right.y = Num(w.y_m.milli - 2000)

\* C16: a waypoint with psi_rad = 0 and d_left = d_right = 2.0 gets its left
\* marker at (x, y + 2.0) and its right marker at (x, y - 2.0); for a heading
\* that is a multiple of pi/2 the left marker is
\* (x - d_left sin psi, y + d_left cos psi) and the right marker
\* (x + d_right sin psi, y - d_right cos psi).
C16_BoundaryOffsets ==
  JsonWritten =>
    LET ms == docs.global_waypoints.trackbounds_markers
        N == Len(iqp_waypoints)
        stride == IF N \div 200 >= 1 THEN N \div 200 ELSE 1
        count == Len(ms) \div 2
    IN \A k \in 1..count :
         LET w == iqp_waypoints[(k - 1) * stride + 1]
         IN /\ ms[k].ns = "trackbounds_left"
            /\ ms[count + k].ns = "trackbounds_right"
            /\ \A q \in QuarterTurns :
                 w.psi_rad = Num(q.psi) =>
                   QuarterTurnMarkers(ms[k], ms[count + k], w, q)
            /\ (w.psi_rad = Num(0) /\ w.d_left = Num(2000) /\ w.d_right = Num(2000))
                 => ZeroHeadingMarkers(ms[k], ms[count + k], w)

\* the markers of the waypoint (0.1, 1.1) with heading 0 and half-widths 2.0
C16_Witness ==
  /\ JsonWritten
  /\ Len(iqp_waypoints) = 1
  /\ iqp_waypoints[1].psi_rad = Num(0)
  /\ iqp_waypoints[1].d_left = Num(2000)
  /\ iqp_waypoints[1].d_right = Num(2000)
  /\ docs.global_waypoints.trackbounds_markers[1].y = Num(3100)
  /\ docs.global_waypoints.trackbounds_markers[2].y = Num(-900)

\* C17: after every row, whenever two of the three lists both have a waypoint
\* at an index, the two waypoints were produced from the same input row.
C17_RowAligned ==
  pc \in {"rows", "loaded"} =>
    \A a \in Kinds, b \in Kinds :
       \A k \in 1..Len(Lists[a]) :
          k <= Len(Lists[b]) => src[a][k] = src[b][k]

\* a sector whose bounds are an index range of a trajectory of N waypoints
WellFormed(sector, N) ==
  /\ 0 <= sector.start
  /\ sector.start <= sector.end
  /\ sector.end <= N - 1

\* C18: for every centerline length N >= 1 that reaches file generation, both
\* overtaking sectors satisfy 0 <= start <= end <= N - 1.
C18_SectorsWellFormed ==
  OtWritten =>
    /\ Len(centerline_waypoints) >= 1
    /\ WellFormed(docs.ot_sectors.Overtaking_sector0, Len(centerline_waypoints))
    /\ WellFormed(docs.ot_sectors.Overtaking_sector1, Len(centerline_waypoints))

Completed == pc = "exit" /\ exit_code = 0 /\ AllDocsWritten

\* C19: a run that ends with a non-zero exit code has written none of the four
\* documents; a run that has written the first document goes on to write all
\* four and ends with exit code 0.
C19_CompleteOrFail ==
  /\ []((pc = "exit" /\ exit_code # 0) => (written = <<>> /\ docs = NoDocs))
  /\ []((pc = "exit" /\ written # <<>>) => Completed)
  /\ []((exit_code # 0 /\ exit_code # -1) => pc = "exit")
  /\ (written # <<>>) ~> Completed

\* a run that failed in the summary computation: the centerline has a
\* waypoint, the IQP list is empty, the directory exists, nothing is written
C19_Witness ==
  /\ pc = "exit"
  /\ exit_code = 1
  /\ out_dir = TRUE
  /\ Len(centerline_waypoints) >= 1
  /\ iqp_waypoints = <<>>
  /\ written = <<>>

\* m is the greatest vx_mps of a list of waypoints
GreatestSpeed(m, waypoints) ==
  /\ \E k \in 1..Len(waypoints) : waypoints[k].vx_mps = m
  /\ \A k \in 1..Len(waypoints) :
       ~waypoints[k].vx_mps.nan /\ waypoints[k].vx_mps.milli <= m.milli

\* C20: whatever rows were parsed, est_lap_time is the constant 108.685 x 1.08
\* (the SP estimate, not the aggressive 108.685), and so are the two lap times
\* of map_info_str; the max-speed figures are the greatest vx_mps of the IQP
\* and SP lists.
C20_LapTimeConstant ==
  JsonWritten =>
    LET doc == docs.global_waypoints
    IN /\ ScaledBy(doc.est_lap_time, Num(108685), 108)
       /\ doc.est_lap_time # Num(108685)
       /\ doc.map_info_str.iqp_lap_time = Num(108685)
       /\ doc.map_info_str.sp_lap_time = doc.est_lap_time
       /\ GreatestSpeed(doc.map_info_str.iqp_max_speed, iqp_waypoints)
       /\ GreatestSpeed(doc.map_info_str.sp_max_speed, sp_waypoints)

\* a document whose max speeds come from the second row (3.2 and 0.85 x 3.2)
\* and differ from those of a one-row input (3.1 and 2.635), with the same
\* lap-time estimate
C20_Witness ==
  /\ JsonWritten
  /\ Len(iqp_waypoints) = 2
  /\ iqp_waypoints[1].vx_mps = Num(3100)
  /\ docs.global_waypoints.map_info_str.iqp_max_speed = Num(3200)
  /\ docs.global_waypoints.map_info_str.sp_max_speed = Num(2720)
  /\ docs.global_waypoints.est_lap_time = Num(117379)

====
